---- MODULE Spec2Model ----
(***************************************************************************)
(* Clinical-Pathways-Extraction-Pipeline: a model of the four batch stages *)
(*   convert_pdfs.py        (PDF Rasterizer)                               *)
(*   extract_pathway.py     (Page Analyzer)                                *)
(*   complete_summary.py    (Complete-Summary Synthesizer)                 *)
(*   matching_summaries.py  (Matching-Summary Condenser)                   *)
(* One behaviour is one run of one stage.  The file system contents the    *)
(* stage finds, and the outcome of every LLM request, are inputs.          *)
(***************************************************************************)
EXTENDS Integers, Sequences, FiniteSets, TLC

\* ------------------------------------------------------------------ bounds
MaxFolders == 2      \* document folders under ripimg/
MaxPage == 3         \* highest page index N of a pg<N>.png file
MaxImages == 5       \* .png files in all the document folders together
MaxFiles == 2        \* *_extracted.json files under extracted_pathways/
MaxNames == 2        \* distinct pathway_name values inside the artifacts
MaxPdfs == 2         \* PDF files under pdfs/
MaxPdfPages == 2     \* pages of one PDF
MaxSummaries == 2    \* *_complete_summary.json files under complete_summaries/
MaxSummaryLen == 2   \* length of a condensed summary returned by the LLM
MaxChunks == 4       \* pieces a file name handed to clean_pathway_name is built from
MaxRecords == 2      \* records of an artifact whose prompt is built
MaxPromptTexts == 2  \* distinct answer texts inside such an artifact
MaxEvents == 6       \* block events of one streamed response

\* --------------------------------------------------------------- constants
\* the sentinel value of `page` in the Pathway Summary Record ("summary");
\* it differs from every numeric page, which is >= 2
summary == 0

Stages == {"Rasterizer", "Analyzer", "Synthesizer", "Condenser"}

VARIABLES
  stage,            \* which script runs
  pc,               \* position in the script
  exitStatus,       \* "running" | "normal" | "notice" | "uncaught"
  interrupted,      \* a KeyboardInterrupt was raised during the run
  dirExists,        \* the stage's input directory exists
  reported,         \* the "No ... found" / "Found 0 ..." line was printed
  requests,         \* LLM requests issued so far, in order
  \* ---- Page Analyzer
  pdf_folders,      \* os.listdir(ripimg_folder) restricted to directories
  folderIdx,        \* position of main's for loop over pdf_folders
  image_files,      \* process_pathway_folder: sorted list, first entry dropped
  i,                \* enumerate index of the page loop
  all_responses,    \* records collected for the folder
  extracted,        \* writes to extracted_pathways/, in order
  results,          \* how each Analyzer request ended, in order
  \* ---- Complete-Summary Synthesizer
  json_files,       \* the *_extracted.json files found, in listing order
  fileIdx,          \* position of main's for loop over json_files
  successful,       \* main's counter
  needs_truncation, \* main's counter
  truncation_log,   \* lines appended to complete_summaries/needs_truncation.log
  complete_written, \* writes to complete_summaries/*_complete_summary.json
  outcomes,         \* how each request of the run ended, in order
  \* ---- PDF Rasterizer
  pdf_files,        \* the PDFs found, in listing order
  pdfIdx,           \* position of the for loop over pdf_files
  pageIdx,          \* enumerate index of the loop over pages
  images,           \* images[k]: the page images written for the k-th PDF
  \* ---- Matching-Summary Condenser
  summary_files,    \* the *_complete_summary.json files found, in listing order
  sumIdx,           \* position of main's for loop over the files
  cond_successful,  \* main's counter `successful`
  failed,           \* main's counter
  matching_json,    \* matching_summaries/<name>_matching.json, by <name>
  matching_txt,     \* matching_summaries/<name>_matching.txt, by <name>
  consolidated,     \* all_pathway_summaries.txt was written in this run
  all_pathway_summaries, \* its content
  \* ---- clean_pathway_name applied to a file name, and to its own result
  filename, clean_once, clean_twice, cleanStep,
  \* ---- the Synthesizer's prompt built for two artifacts
  dataA, dataB, promptA, promptB,
  \* ---- the loop over the events of one streamed response
  stream,             \* the events received so far, in arrival order
  in_thinking_block,  \* the loop's flags and accumulators
  in_text_block,
  current_thinking,
  current_response

analyzerVars == <<pdf_folders, folderIdx, image_files, i, all_responses, extracted,
                 results>>
synthVars == <<json_files, fileIdx, successful, needs_truncation, truncation_log,
               complete_written, outcomes>>
rasterVars == <<pdf_files, pdfIdx, pageIdx, images>>
commonVars == <<stage, pc, exitStatus, interrupted, dirExists, reported, requests>>
condVars == <<summary_files, sumIdx, cond_successful, failed, matching_json,
              matching_txt, consolidated, all_pathway_summaries>>
cleanVars == <<filename, clean_once, clean_twice, cleanStep>>
promptVars == <<dataA, dataB, promptA, promptB>>
streamVars == <<stream, in_thinking_block, in_text_block, current_thinking,
                current_response>>
vars == <<commonVars, analyzerVars, synthVars, rasterVars, condVars, cleanVars, promptVars,
          streamVars>>

otherThanAnalyzer == <<synthVars, rasterVars, condVars, cleanVars, promptVars, streamVars>>
otherThanSynth == <<analyzerVars, rasterVars, condVars, cleanVars, promptVars, streamVars>>
otherThanRaster == <<analyzerVars, synthVars, condVars, cleanVars, promptVars, streamVars>>
otherThanCond == <<analyzerVars, synthVars, rasterVars, cleanVars, promptVars, streamVars>>

\* ------------------------------------------------------------------ helpers
Min(S) == CHOOSE x \in S : \A y \in S : x <= y

RECURSIVE SortedSeq(_)
\* sorted(..., key=int(name)) over names pg<N>.png, each named by its N
SortedSeq(S) == IF S = {} THEN <<>> ELSE <<Min(S)>> \o SortedSeq(S \ {Min(S)})

\* a folder: the page indices N of its pg<N>.png files, and whether it also
\* holds a .png file whose name is not pg<N>.png
Folders == [pngs : SUBSET (1..MaxPage), foreign : BOOLEAN]

RECURSIVE SeqsUpTo(_, _)
SeqsUpTo(S, n) ==
  IF n = 0 THEN {<<>>}
  ELSE SeqsUpTo(S, n - 1) \cup
       {Append(s, x) : s \in {t \in SeqsUpTo(S, n - 1) : Len(t) = n - 1}, x \in S}

\* the answer text of a request to a stage run: no branch of a stage reads it
Texts == {"answer"}

RECURSIVE TotalPngs(_)
TotalPngs(fs) ==
  IF fs = <<>> THEN 0
  ELSE Cardinality(Head(fs).pngs) + (IF Head(fs).foreign THEN 1 ELSE 0)
       + TotalPngs(Tail(fs))

\* the listings of ripimg/ a run may find
FolderListings ==
  {fs \in SeqsUpTo(Folders, MaxFolders) : TotalPngs(fs) <= MaxImages}

\* ------------------------------------------------------------------ strings
\* a string is the sequence of its characters
Digits == {"0", "1", "2", "3", "4", "5", "6", "7", "8", "9"}

SUFFIX == <<"_","c","o","m","p","l","e","t","e","_","s","u","m","m","a","r","y",
            ".","j","s","o","n">>

RECURSIVE Rep(_, _)
\* c * n
Rep(c, n) == IF n = 0 THEN <<>> ELSE <<c>> \o Rep(c, n - 1)

RECURSIVE Flatten(_)
\* the concatenation of a sequence of strings
Flatten(ss) == IF ss = <<>> THEN <<>> ELSE Head(ss) \o Flatten(Tail(ss))

RECURSIVE Join(_, _)
\* sep.join(ss)
Join(sep, ss) ==
  IF ss = <<>> THEN <<>>
  ELSE IF Len(ss) = 1 THEN Head(ss)
  ELSE Head(ss) \o sep \o Join(sep, Tail(ss))

RECURSIVE Remove(_, _)
\* s.replace(old, ""): every non-overlapping occurrence, leftmost first
Remove(s, old) ==
  IF Len(s) < Len(old) THEN s
  ELSE IF SubSeq(s, 1, Len(old)) = old
    THEN Remove(SubSeq(s, Len(old) + 1, Len(s)), old)
    ELSE <<Head(s)>> \o Remove(Tail(s), old)

RECURSIVE DigitsRun(_, _)
\* \d+ at position p: the number of consecutive digits from p on (greedy)
DigitsRun(s, p) ==
  IF p <= Len(s) /\ s[p] \in Digits THEN 1 + DigitsRun(s, p + 1) ELSE 0

At(s, p, c) == p <= Len(s) /\ s[p] = c

\* an optional group made of one character and \d+: the position after it
OptGroup(s, p, c) ==
  IF At(s, p, c) /\ DigitsRun(s, p + 1) >= 1 THEN p + 1 + DigitsRun(s, p + 1) ELSE p

\* (-508h)?: the position after it
Opt508h(s, p) ==
  IF p + 4 <= Len(s) /\ SubSeq(s, p, p + 4) = <<"-", "5", "0", "8", "h">>
    THEN p + 5 ELSE p

\* the pattern -v\d+(\.\d+)?(-\d+)?(-508h)? tried at position p: the position after
\* the match, or p when there is no match there
MatchEnd(s, p) ==
  IF At(s, p, "-") /\ At(s, p + 1, "v") /\ DigitsRun(s, p + 2) >= 1
    THEN Opt508h(s, OptGroup(s, OptGroup(s, p + 2 + DigitsRun(s, p + 2), "."), "-"))
    ELSE p

RECURSIVE SubFrom(_, _)
\* re.sub(pattern, '', s), scanning from position p
SubFrom(s, p) ==
  IF p > Len(s) THEN <<>>
  ELSE IF MatchEnd(s, p) > p THEN SubFrom(s, MatchEnd(s, p))
  ELSE <<s[p]>> \o SubFrom(s, p + 1)

clean_pathway_name(f) == SubFrom(Remove(f, SUFFIX), 1)

\* ---------------------------------------------------------- Page Analyzer
\* extract_pathway.py main(), the directory scan
AnalyzerList ==
  /\ stage = "Analyzer" /\ pc = "start"
  /\ IF ~dirExists
       THEN \* os.listdir raises FileNotFoundError; main has no handler
            /\ pc' = "end" /\ exitStatus' = "uncaught"
            /\ UNCHANGED <<reported, folderIdx>>
       ELSE IF pdf_folders = <<>>
         THEN /\ reported' = TRUE
              /\ pc' = "end" /\ exitStatus' = "normal"
              /\ UNCHANGED folderIdx
         ELSE /\ pc' = "folder" /\ folderIdx' = 1
              /\ UNCHANGED <<reported, exitStatus>>
  /\ UNCHANGED <<stage, interrupted, dirExists, requests,
                 pdf_folders, image_files, i, all_responses, extracted, results,
                 otherThanAnalyzer>>

\* main's for loop moves to the next folder, or the stage ends
NextFolder ==
  IF folderIdx < Len(pdf_folders)
    THEN /\ folderIdx' = folderIdx + 1 /\ pc' = "folder"
         /\ UNCHANGED exitStatus
    ELSE /\ pc' = "end" /\ exitStatus' = "normal"
         /\ UNCHANGED folderIdx

\* FolderStart without `image_files = image_files[1:]`: page 1 is analysed too
FolderStart_KeepFirst ==
  /\ stage = "Analyzer" /\ pc = "folder"
  /\ LET folder == pdf_folders[folderIdx]
         sorted == SortedSeq(folder.pngs)
     IN IF folder.foreign
          THEN /\ pc' = "end" /\ exitStatus' = "uncaught"
               /\ UNCHANGED <<folderIdx, image_files, i, all_responses>>
          ELSE IF Len(sorted) < 2
            THEN /\ NextFolder
                 /\ UNCHANGED <<image_files, i, all_responses>>
            ELSE /\ image_files' = sorted
                 /\ i' = 0
                 /\ all_responses' = <<>>
                 /\ pc' = "page"
                 /\ UNCHANGED <<folderIdx, exitStatus>>
  /\ UNCHANGED <<stage, interrupted, dirExists, reported, requests,
                 pdf_folders, extracted, results, otherThanAnalyzer>>

\* process_pathway_folder, up to the page loop
FolderStart ==
  /\ stage = "Analyzer" /\ pc = "folder"
  /\ LET folder == pdf_folders[folderIdx]
         sorted == SortedSeq(folder.pngs)
     IN IF folder.foreign
          THEN \* int(...) raises ValueError inside the sort key
               /\ pc' = "end" /\ exitStatus' = "uncaught"
               /\ UNCHANGED <<folderIdx, image_files, i, all_responses>>
          ELSE IF Len(sorted) < 2
            THEN /\ NextFolder
                 /\ UNCHANGED <<image_files, i, all_responses>>
            ELSE /\ image_files' = Tail(sorted)
                 /\ i' = 0
                 /\ all_responses' = <<>>
                 /\ pc' = "page"
                 /\ UNCHANGED <<folderIdx, exitStatus>>
  /\ UNCHANGED <<stage, interrupted, dirExists, reported, requests,
                 pdf_folders, extracted, results, otherThanAnalyzer>>

\* one iteration of the page loop: the request is sent
PageRequest ==
  /\ stage = "Analyzer" /\ pc = "page"
  /\ requests' = Append(requests,
        [doc |-> folderIdx, page |-> i + 2, image_file |-> image_files[i + 1]])
  /\ pc' = "page_wait"
  /\ UNCHANGED <<stage, exitStatus, interrupted, dirExists, reported, analyzerVars, otherThanAnalyzer>>

\* the loop continues with the next page, or falls through to the summary
AfterPage ==
  /\ i' = i + 1
  /\ pc' = IF i + 1 < Len(image_files) THEN "page" ELSE "summary"

\* PageOk with the artifact saved after every page
PageOk_SavesEachPage ==
  /\ stage = "Analyzer" /\ pc = "page_wait"
  /\ \E text \in Texts :
       LET record == [page |-> i + 2, image_file |-> image_files[i + 1], response |-> text]
       IN /\ all_responses' = Append(all_responses, record)
          /\ extracted' = Append(extracted,
                [pathway_name |-> folderIdx, responses |-> Append(all_responses, record)])
  /\ results' = Append(results, [doc |-> folderIdx, page |-> i + 2, ok |-> TRUE])
  /\ AfterPage
  /\ UNCHANGED <<stage, exitStatus, interrupted, dirExists, reported, requests,
                 pdf_folders, folderIdx, image_files, otherThanAnalyzer>>

\* the stream ends normally: the Page Record is appended
PageOk ==
  /\ stage = "Analyzer" /\ pc = "page_wait"
  /\ \E text \in Texts :
       all_responses' = Append(all_responses,
          [page |-> i + 2, image_file |-> image_files[i + 1], response |-> text])
  /\ results' = Append(results, [doc |-> folderIdx, page |-> i + 2, ok |-> TRUE])
  /\ AfterPage
  /\ UNCHANGED <<stage, exitStatus, interrupted, dirExists, reported, requests,
                 pdf_folders, folderIdx, image_files, extracted, otherThanAnalyzer>>

\* PageError with the try block around the whole loop: the first error ends it
PageError_Aborts ==
  /\ stage = "Analyzer" /\ pc = "page_wait"
  /\ results' = Append(results, [doc |-> folderIdx, page |-> i + 2, ok |-> FALSE])
  /\ i' = i + 1
  /\ pc' = "summary"
  /\ UNCHANGED <<stage, exitStatus, interrupted, dirExists, reported, requests,
                 pdf_folders, folderIdx, image_files, all_responses, extracted,
                 otherThanAnalyzer>>

\* the request raises: except Exception prints the error
PageError ==
  /\ stage = "Analyzer" /\ pc = "page_wait"
  /\ results' = Append(results, [doc |-> folderIdx, page |-> i + 2, ok |-> FALSE])
  /\ AfterPage
  /\ UNCHANGED <<stage, exitStatus, interrupted, dirExists, reported, requests,
                 pdf_folders, folderIdx, image_files, all_responses, extracted, otherThanAnalyzer>>

SummaryRequest ==
  /\ stage = "Analyzer" /\ pc = "summary"
  /\ requests' = Append(requests, [doc |-> folderIdx, page |-> summary, image_file |-> 0])
  /\ pc' = "summary_wait"
  /\ UNCHANGED <<stage, exitStatus, interrupted, dirExists, reported, analyzerVars, otherThanAnalyzer>>

SummaryOk ==
  /\ stage = "Analyzer" /\ pc = "summary_wait"
  /\ \E text \in Texts :
       all_responses' = Append(all_responses, [page |-> summary, response |-> text])
  /\ results' = Append(results, [doc |-> folderIdx, page |-> summary, ok |-> TRUE])
  /\ pc' = "save"
  /\ UNCHANGED <<stage, exitStatus, interrupted, dirExists, reported, requests,
                 pdf_folders, folderIdx, image_files, i, extracted, otherThanAnalyzer>>

SummaryError ==
  /\ stage = "Analyzer" /\ pc = "summary_wait"
  /\ results' = Append(results, [doc |-> folderIdx, page |-> summary, ok |-> FALSE])
  /\ pc' = "save"
  /\ UNCHANGED <<stage, exitStatus, interrupted, dirExists, reported, requests,
                 pdf_folders, folderIdx, image_files, i, all_responses, extracted,
                 otherThanAnalyzer>>

\* json.dump of the folder's artifact, then back to main's loop
SaveArtifact ==
  /\ stage = "Analyzer" /\ pc = "save"
  /\ extracted' = Append(extracted,
        [pathway_name |-> folderIdx, responses |-> all_responses])
  /\ NextFolder
  /\ UNCHANGED <<stage, interrupted, dirExists, reported, requests,
                 pdf_folders, image_files, i, all_responses, results,
                 otherThanAnalyzer>>

\* ------------------------------------------- Complete-Summary Synthesizer
Names == 1..MaxNames

\* the records of an Extraction Artifact, as far as the Synthesizer reads them
PageRecs(texts) == [page : {summary} \cup (2..MaxPage), response : texts]

\* the parsed content of a *_extracted.json file
Artifacts(texts, n) == [pathway_name : Names, responses : SeqsUpTo(PageRecs(texts), n)]

\* the records of the artifacts a Synthesizer run reads: one page and the summary
SampleResponses ==
  << [page |-> 2, response |-> "answer"], [page |-> summary, response |-> "answer"] >>

\* a *_extracted.json file: whether it parses and has the expected keys, and its data
JsonFiles ==
  [wellformed : BOOLEAN,
   data : [pathway_name : Names, responses : {SampleResponses}]]

\* page_responses without the filter
page_responses_all(responses) == responses

\* page_responses = [r for r in responses if r['page'] != 'summary']
page_responses(responses) == SelectSeq(responses, LAMBDA r : r.page # summary)

RECURSIVE PageSections(_)
\* the for loop that appends one "=== PAGE n ANALYSIS ===" section per record
PageSections(rs) ==
  IF rs = <<>> THEN <<>>
  ELSE << [lit |-> "=== PAGE "], [num |-> Head(rs).page], [lit |-> " ANALYSIS ===\n"],
          [text |-> Head(rs).response], [lit |-> "\n\n"] >> \o PageSections(Tail(rs))

\* full_prompt = context_text + summary_text, as the sequence of its pieces
full_prompt(data) ==
  << [lit |-> "I need a comprehensive summary of the clinical pathway for "],
     [name |-> data.pathway_name], [lit |-> ".\n\n"],
     [lit |-> "Here are the full analyses of each page:\n\n"] >>
  \o PageSections(page_responses(data.responses))
  \o << [lit |-> "Based on all the information above, ..."] >>

\* complete_summary.py main(), the directory scan
SynthList ==
  /\ stage = "Synthesizer" /\ pc = "start"
  /\ IF ~dirExists
       THEN \* os.listdir raises FileNotFoundError; main has no handler
            /\ pc' = "end" /\ exitStatus' = "uncaught"
            /\ UNCHANGED <<reported, fileIdx>>
       ELSE IF json_files = <<>>
         THEN /\ reported' = TRUE
              /\ pc' = "end" /\ exitStatus' = "normal"
              /\ UNCHANGED fileIdx
         ELSE /\ pc' = "doc" /\ fileIdx' = 1
              /\ UNCHANGED <<reported, exitStatus>>
  /\ UNCHANGED <<stage, interrupted, dirExists, requests, json_files, successful,
                 needs_truncation, truncation_log, complete_written, outcomes,
                 otherThanSynth>>

\* main's for loop moves to the next file, or prints the tally and ends
NextFile ==
  IF fileIdx < Len(json_files)
    THEN /\ fileIdx' = fileIdx + 1 /\ pc' = "doc"
         /\ UNCHANGED exitStatus
    ELSE /\ pc' = "end" /\ exitStatus' = "normal"
         /\ UNCHANGED fileIdx

\* generate_complete_summary up to the request
SynthRequest ==
  /\ stage = "Synthesizer" /\ pc = "doc"
  /\ LET file == json_files[fileIdx]
     IN IF ~file.wellformed
          THEN \* json.load / data[...] raise outside the try block
               /\ pc' = "end" /\ exitStatus' = "uncaught"
               /\ UNCHANGED requests
          ELSE /\ requests' = Append(requests,
                     [doc |-> fileIdx, prompt |-> full_prompt(file.data)])
               /\ pc' = "doc_wait"
               /\ UNCHANGED exitStatus
  /\ UNCHANGED <<stage, interrupted, dirExists, reported, synthVars, otherThanSynth>>

\* the stream ends normally: the artifact is written, True is returned
SynthOk ==
  /\ stage = "Synthesizer" /\ pc = "doc_wait"
  /\ \E text \in Texts :
       complete_written' = Append(complete_written,
          [pathway_name |-> json_files[fileIdx].data.pathway_name,
           original_file |-> fileIdx,
           complete_summary |-> [response |-> text]])
  /\ outcomes' = Append(outcomes, [doc |-> fileIdx, result |-> "ok"])
  /\ successful' = successful + 1
  /\ NextFile
  /\ UNCHANGED <<stage, interrupted, dirExists, reported, requests, json_files,
                 needs_truncation, truncation_log, otherThanSynth>>

\* what main does with a False result
CountFailure == needs_truncation' = needs_truncation + 1

\* except anthropic.BadRequestError with "too many tokens" in the message
SynthTokenLimit ==
  /\ stage = "Synthesizer" /\ pc = "doc_wait"
  /\ truncation_log' = Append(truncation_log, fileIdx)
  /\ outcomes' = Append(outcomes, [doc |-> fileIdx, result |-> "token_limit"])
  /\ CountFailure
  /\ NextFile
  /\ UNCHANGED <<stage, interrupted, dirExists, reported, requests, json_files,
                 successful, complete_written, otherThanSynth>>

\* SynthOtherError with the log line written for every BadRequestError
SynthOtherError_Logs ==
  /\ stage = "Synthesizer" /\ pc = "doc_wait"
  /\ \E kind \in {"bad_request", "exception"} :
       /\ outcomes' = Append(outcomes, [doc |-> fileIdx, result |-> kind])
       /\ truncation_log' = IF kind = "bad_request"
                              THEN Append(truncation_log, fileIdx) ELSE truncation_log
  /\ CountFailure
  /\ NextFile
  /\ UNCHANGED <<stage, interrupted, dirExists, reported, requests, json_files,
                 successful, complete_written, otherThanSynth>>

\* any other BadRequestError, or any other Exception
SynthOtherError ==
  /\ stage = "Synthesizer" /\ pc = "doc_wait"
  /\ \E kind \in {"bad_request", "exception"} :
       outcomes' = Append(outcomes, [doc |-> fileIdx, result |-> kind])
  /\ CountFailure
  /\ NextFile
  /\ UNCHANGED <<stage, interrupted, dirExists, reported, requests, json_files,
                 successful, truncation_log, complete_written, otherThanSynth>>

\* ---------------------------------------------------------- PDF Rasterizer
\* a PDF: its page count, whether pdf2image renders it, and the page whose
\* resize or save raises (0: none does)
Pdfs == UNION {[pages : {n}, renders : BOOLEAN, save_fails : 0..n] : n \in 0..MaxPdfPages}

\* convert_pdfs_to_images, the directory scan
RasterList ==
  /\ stage = "Rasterizer" /\ pc = "start"
  /\ IF ~dirExists
       THEN \* os.listdir raises FileNotFoundError
            /\ pc' = "end" /\ exitStatus' = "uncaught"
            /\ UNCHANGED <<reported, pdfIdx>>
       ELSE IF pdf_files = <<>>
         THEN \* "Found 0 PDF files to process", then "conversion complete"
              /\ reported' = TRUE
              /\ pc' = "end" /\ exitStatus' = "normal"
              /\ UNCHANGED pdfIdx
         ELSE /\ pc' = "pdf" /\ pdfIdx' = 1
              /\ UNCHANGED <<reported, exitStatus>>
  /\ UNCHANGED <<stage, interrupted, dirExists, requests, pdf_files, pageIdx, images,
                 otherThanRaster>>

NextPdf ==
  IF pdfIdx < Len(pdf_files)
    THEN /\ pdfIdx' = pdfIdx + 1 /\ pc' = "pdf"
         /\ UNCHANGED exitStatus
    ELSE /\ pc' = "end" /\ exitStatus' = "normal"
         /\ UNCHANGED pdfIdx

\* pdf2image.convert_from_path for the current PDF
RenderPdf ==
  /\ stage = "Rasterizer" /\ pc = "pdf"
  /\ LET pdf == pdf_files[pdfIdx]
     IN IF pdf.renders /\ pdf.pages > 0
          THEN /\ pc' = "pages" /\ pageIdx' = 0
               /\ UNCHANGED <<pdfIdx, exitStatus>>
          ELSE \* except Exception prints the error; or there is no page to save
               /\ NextPdf
               /\ UNCHANGED pageIdx
  /\ UNCHANGED <<stage, interrupted, dirExists, reported, requests, pdf_files, images,
                 otherThanRaster>>

\* the loop over pages with the image named pg{i}.png, from zero
SavePage_FromZero ==
  /\ stage = "Rasterizer" /\ pc = "pages"
  /\ IF pageIdx + 1 = pdf_files[pdfIdx].save_fails
       THEN /\ NextPdf
            /\ UNCHANGED <<pageIdx, images>>
       ELSE /\ images' = [images EXCEPT ![pdfIdx] = Append(@, pageIdx)]
            /\ IF pageIdx + 1 < pdf_files[pdfIdx].pages
                 THEN /\ pageIdx' = pageIdx + 1
                      /\ UNCHANGED <<pc, pdfIdx, exitStatus>>
                 ELSE /\ NextPdf
                      /\ UNCHANGED pageIdx
  /\ UNCHANGED <<stage, interrupted, dirExists, reported, requests, pdf_files,
                 otherThanRaster>>

\* one iteration of the loop over pages: pg{i+1}.png is saved
SavePage ==
  /\ stage = "Rasterizer" /\ pc = "pages"
  /\ IF pageIdx + 1 = pdf_files[pdfIdx].save_fails
       THEN \* resize, crop or save raises: except Exception prints the error
            /\ NextPdf
            /\ UNCHANGED <<pageIdx, images>>
       ELSE /\ images' = [images EXCEPT ![pdfIdx] = Append(@, pageIdx + 1)]
            /\ IF pageIdx + 1 < pdf_files[pdfIdx].pages
                 THEN /\ pageIdx' = pageIdx + 1
                      /\ UNCHANGED <<pc, pdfIdx, exitStatus>>
                 ELSE /\ NextPdf
                      /\ UNCHANGED pageIdx
  /\ UNCHANGED <<stage, interrupted, dirExists, reported, requests, pdf_files,
                 otherThanRaster>>

\* ------------------------------------------------ Matching-Summary Condenser
\* stems of the *_complete_summary.json files a run may find
Stems == { <<"a">>, <<"a", "-", "v", "1">>, <<"b", "-", "v", "2">>, <<"b">> }

\* a *_complete_summary.json file: its name and whether it parses with the keys
SummaryFiles == [wellformed : BOOLEAN, name : {st \o SUFFIX : st \in Stems}]

\* directory listings: distinct names, any order
Listings(n) == {fs \in SeqsUpTo(SummaryFiles, n) :
                  \A j, k \in 1..Len(fs) : j # k => fs[j].name # fs[k].name}

\* the condensed summaries the LLM may return
CondTexts == {Rep("x", n) : n \in 1..MaxSummaryLen}

PATHWAY == <<"P", "A", "T", "H", "W", "A", "Y", ":", " ">>
NL2 == <<"\n", "\n">>

\* a file of a directory written or overwritten by name
WriteFile(dir, name, content) ==
  [n \in DOMAIN dir \cup {name} |-> IF n = name THEN content ELSE dir[n]]

\* the orders os.listdir may return a directory's entries in
ListDir(names) ==
  {order \in [1..Cardinality(names) -> names] :
     \A j, k \in 1..Cardinality(names) : j # k => order[j] # order[k]}

\* the string main writes to all_pathway_summaries.txt
Consolidated(all_summaries) == NL2 \o Rep("=", 50) \o Join(NL2, all_summaries)

\* matching_summaries.py main(), the directory scan
CondList ==
  /\ stage = "Condenser" /\ pc = "start"
  /\ IF ~dirExists
       THEN \* os.listdir raises FileNotFoundError; main has no handler
            /\ pc' = "end" /\ exitStatus' = "uncaught"
            /\ UNCHANGED <<reported, sumIdx>>
       ELSE IF summary_files = <<>>
         THEN /\ reported' = TRUE
              /\ pc' = "end" /\ exitStatus' = "normal"
              /\ UNCHANGED sumIdx
         ELSE /\ pc' = "doc" /\ sumIdx' = 1
              /\ UNCHANGED <<reported, exitStatus>>
  /\ UNCHANGED <<stage, interrupted, dirExists, requests, summary_files,
                 cond_successful, failed, matching_json, matching_txt, consolidated,
                 all_pathway_summaries, otherThanCond>>

\* main's for loop moves to the next file, or goes on to the tally
NextSummary ==
  IF sumIdx < Len(summary_files)
    THEN /\ sumIdx' = sumIdx + 1 /\ pc' = "doc"
    ELSE /\ pc' = "tally"
         /\ UNCHANGED sumIdx

\* generate_condensed_summary up to the request
CondRequest ==
  /\ stage = "Condenser" /\ pc = "doc"
  /\ LET file == summary_files[sumIdx]
     IN IF ~file.wellformed
          THEN \* json.load / data[...] raise outside the try block
               /\ pc' = "end" /\ exitStatus' = "uncaught"
               /\ UNCHANGED requests
          ELSE /\ requests' = Append(requests,
                     [doc |-> sumIdx, clean_name |-> clean_pathway_name(file.name)])
               /\ pc' = "doc_wait"
               /\ UNCHANGED exitStatus
  /\ UNCHANGED <<stage, interrupted, dirExists, reported, condVars, otherThanCond>>

\* the request returns: both artifacts are written, True is returned
CondOk ==
  /\ stage = "Condenser" /\ pc = "doc_wait"
  /\ LET clean_name == clean_pathway_name(summary_files[sumIdx].name)
     IN \E condensed_summary \in CondTexts :
          /\ matching_json' = WriteFile(matching_json, clean_name,
                [pathway_name |-> clean_name, original_file |-> summary_files[sumIdx].name,
                 matching_summary |-> condensed_summary])
          /\ matching_txt' = WriteFile(matching_txt, clean_name,
                PATHWAY \o clean_name \o NL2 \o condensed_summary)
  /\ cond_successful' = cond_successful + 1
  /\ NextSummary
  /\ UNCHANGED <<stage, exitStatus, interrupted, dirExists, reported, requests,
                 summary_files, failed, consolidated, all_pathway_summaries,
                 otherThanCond>>

\* the request raises: except Exception prints the error, False is returned
CondError ==
  /\ stage = "Condenser" /\ pc = "doc_wait"
  /\ failed' = failed + 1
  /\ NextSummary
  /\ UNCHANGED <<stage, exitStatus, interrupted, dirExists, reported, requests,
                 summary_files, cond_successful, matching_json, matching_txt,
                 consolidated, all_pathway_summaries, otherThanCond>>

\* the end of main: the tally, and the consolidated file when a document succeeded
CondTally ==
  /\ stage = "Condenser" /\ pc = "tally"
  /\ IF cond_successful > 0
       THEN \E order \in ListDir(DOMAIN matching_txt) :
              /\ all_pathway_summaries' =
                   Consolidated([k \in DOMAIN order |-> matching_txt[order[k]]])
              /\ consolidated' = TRUE
       ELSE UNCHANGED <<consolidated, all_pathway_summaries>>
  /\ pc' = "end" /\ exitStatus' = "normal"
  /\ UNCHANGED <<stage, interrupted, dirExists, reported, requests, summary_files,
                 sumIdx, cond_successful, failed, matching_json, matching_txt,
                 otherThanCond>>

\* ------------------------------------------------------------- interrupts
\* the scripts whose __main__ block wraps main() in try/except KeyboardInterrupt
CatchesInterrupt == {"Analyzer", "Synthesizer", "Condenser"}

\* a KeyboardInterrupt raised while the stage runs
KeyboardInterrupt ==
  /\ pc # "end"
  /\ interrupted' = TRUE
  /\ pc' = "end"
  /\ exitStatus' = IF stage \in CatchesInterrupt THEN "notice" ELSE "uncaught"
  /\ UNCHANGED <<stage, dirExists, reported, requests, analyzerVars, synthVars,
                 rasterVars, condVars, cleanVars, promptVars, streamVars>>

\* ------------------------------------------------------------ initial state
InitAnalyzer ==
  /\ pdf_folders \in (IF stage = "Analyzer" /\ dirExists
                        THEN FolderListings ELSE {<<>>})
  /\ folderIdx = 0
  /\ image_files = <<>>
  /\ i = 0
  /\ all_responses = <<>>
  /\ extracted = <<>>
  /\ results = <<>>

InitSynth ==
  /\ json_files \in (IF stage = "Synthesizer" /\ dirExists
                       THEN SeqsUpTo(JsonFiles, MaxFiles) ELSE {<<>>})
  /\ fileIdx = 0
  /\ successful = 0
  /\ needs_truncation = 0
  /\ truncation_log = <<>>
  /\ complete_written = <<>>
  /\ outcomes = <<>>

InitRaster ==
  /\ pdf_files \in (IF stage = "Rasterizer" /\ dirExists
                      THEN SeqsUpTo(Pdfs, MaxPdfs) ELSE {<<>>})
  /\ pdfIdx = 0
  /\ pageIdx = 0
  /\ images = [k \in 1..Len(pdf_files) |-> <<>>]

\* matching_summaries/ is empty, or holds the text file of an earlier run
InitCond ==
  /\ summary_files \in (IF stage = "Condenser" /\ dirExists
                          THEN Listings(MaxSummaries) ELSE {<<>>})
  /\ sumIdx = 0
  /\ cond_successful = 0
  /\ failed = 0
  /\ matching_json = <<>>
  /\ matching_txt \in (IF stage = "Condenser" /\ dirExists
                         THEN {<<>>, WriteFile(<<>>, <<"a">>, PATHWAY \o <<"a">> \o NL2 \o <<"y">>)}
                         ELSE {<<>>})
  /\ consolidated = FALSE
  /\ all_pathway_summaries = <<>>

\* the variables of the pure-function checks, unused by a stage run
IdleClean ==
  /\ filename = <<>> /\ clean_once = <<>> /\ clean_twice = <<>> /\ cleanStep = 0

IdlePrompt ==
  /\ dataA = <<>> /\ dataB = <<>> /\ promptA = <<>> /\ promptB = <<>>

\* no event has arrived: the flags and accumulators as each request resets them
IdleStream ==
  /\ stream = <<>>
  /\ in_thinking_block = FALSE /\ in_text_block = FALSE
  /\ current_thinking = <<>> /\ current_response = <<>>

Init ==
  /\ stage \in Stages
  /\ pc = "start"
  /\ exitStatus = "running"
  /\ interrupted = FALSE
  /\ dirExists \in BOOLEAN
  /\ reported = FALSE
  /\ requests = <<>>
  /\ InitAnalyzer
  /\ InitSynth
  /\ InitRaster
  /\ InitCond
  /\ IdleClean
  /\ IdlePrompt
  /\ IdleStream

Next ==
  \/ AnalyzerList
  \/ FolderStart
  \/ PageRequest
  \/ PageOk
  \/ PageError
  \/ SummaryRequest
  \/ SummaryOk
  \/ SummaryError
  \/ SaveArtifact
  \/ SynthList
  \/ SynthRequest
  \/ SynthOk
  \/ SynthTokenLimit
  \/ SynthOtherError
  \/ RasterList
  \/ RenderPdf
  \/ SavePage
  \/ CondList
  \/ CondRequest
  \/ CondOk
  \/ CondError
  \/ CondTally
  \/ KeyboardInterrupt

Spec == Init /\ [][Next]_vars

\* ------------------------------------------- clean_pathway_name, on its own
\* no stage runs
IdlePipeline ==
  /\ stage = "none" /\ pc = "end" /\ exitStatus = "normal"
  /\ interrupted = FALSE /\ dirExists = FALSE /\ reported = FALSE /\ requests = <<>>
  /\ InitAnalyzer /\ InitSynth /\ InitRaster /\ InitCond

pipelineVars == <<commonVars, analyzerVars, synthVars, rasterVars, condVars>>

\* the pieces file names are built from
Chunks == { <<"-">>, <<"v">>, <<"1">>, <<".">>, <<"x">>,
            <<"-", "v", "1">>, <<"-", "5", "0", "8", "h">>, SUFFIX }

FileNames == {Flatten(cs) : cs \in SeqsUpTo(Chunks, MaxChunks)}

InitClean ==
  /\ IdlePipeline /\ IdlePrompt /\ IdleStream
  /\ filename \in FileNames
  /\ clean_once = <<>> /\ clean_twice = <<>> /\ cleanStep = 0

CleanOnce ==
  /\ cleanStep = 0
  /\ clean_once' = clean_pathway_name(filename)
  /\ cleanStep' = 1
  /\ UNCHANGED <<filename, clean_twice, pipelineVars, promptVars, streamVars>>

CleanAgain ==
  /\ cleanStep = 1
  /\ clean_twice' = clean_pathway_name(clean_once)
  /\ cleanStep' = 2
  /\ UNCHANGED <<filename, clean_once, pipelineVars, promptVars, streamVars>>

NextClean ==
  \/ CleanOnce
  \/ CleanAgain

SpecClean == InitClean /\ [][NextClean]_vars

\* ------------------------------------------ the Synthesizer's prompt, on its own
PromptTexts == 1..MaxPromptTexts

\* the artifacts that have the records of d, each with any answer text
SameShape(d) ==
  {[pathway_name |-> d.pathway_name,
    responses |-> [k \in 1..Len(d.responses) |->
                     [page |-> d.responses[k].page, response |-> f[k]]]] :
     f \in [1..Len(d.responses) -> PromptTexts]}

InitPrompt ==
  /\ IdlePipeline /\ IdleClean /\ IdleStream
  /\ dataA \in Artifacts(PromptTexts, MaxRecords)
  /\ dataB \in SameShape(dataA)
  /\ promptA = <<>> /\ promptB = <<>>

BuildPromptA ==
  /\ promptA = <<>>
  /\ promptA' = full_prompt(dataA)
  /\ UNCHANGED <<dataA, dataB, promptB, pipelineVars, cleanVars, streamVars>>

BuildPromptB ==
  /\ promptB = <<>>
  /\ promptB' = full_prompt(dataB)
  /\ UNCHANGED <<dataA, dataB, promptA, pipelineVars, cleanVars, streamVars>>

NextPrompt ==
  \/ BuildPromptA
  \/ BuildPromptB

SpecPrompt == InitPrompt /\ [][NextPrompt]_vars

\* ------------------------------------------------ the stream loop, on its own
BlockTypes == {"thinking", "text"}

\* the text carried by a delta; a string is the sequence of its characters
DeltaTexts == { <<"a">>, <<"b">> }

Starts == [type : {"content_block_start"}, block : BlockTypes, text : {<<>>}]
Deltas == [type : {"content_block_delta"}, block : BlockTypes, text : DeltaTexts]
Stops == [type : {"content_block_stop"}, block : {"none"}, text : {<<>>}]
message_stop == [type |-> "message_stop", block |-> "none", text |-> <<>>]

\* message_stop has arrived: the iteration over the stream is over
StreamEnded == stream # <<>> /\ stream[Len(stream)] = message_stop

\* the flags and accumulators are reset, then the events are iterated over
InitStream ==
  /\ IdlePipeline /\ IdleClean /\ IdlePrompt
  /\ stream = <<>>
  /\ in_thinking_block = FALSE /\ in_text_block = FALSE
  /\ current_thinking = <<>> /\ current_response = <<>>

\* event.type == "content_block_start"
BlockStart ==
  /\ ~StreamEnded /\ Len(stream) < MaxEvents
  /\ \E event \in Starts :
       /\ stream' = Append(stream, event)
       /\ IF event.block = "thinking"
            THEN /\ in_thinking_block' = TRUE
                 /\ UNCHANGED in_text_block
            ELSE /\ in_text_block' = TRUE
                 /\ in_thinking_block' = FALSE
  /\ UNCHANGED <<current_thinking, current_response, pipelineVars, cleanVars, promptVars>>

\* the delta branch with each delta appended to the other accumulator
BlockDelta_Crossed ==
  /\ ~StreamEnded /\ Len(stream) < MaxEvents
  /\ \E event \in Deltas :
       /\ stream' = Append(stream, event)
       /\ IF event.block = "thinking" /\ in_thinking_block
            THEN /\ current_response' = current_response \o event.text
                 /\ UNCHANGED current_thinking
            ELSE IF event.block = "text" /\ in_text_block
              THEN /\ current_thinking' = current_thinking \o event.text
                   /\ UNCHANGED current_response
              ELSE UNCHANGED <<current_thinking, current_response>>
  /\ UNCHANGED <<in_thinking_block, in_text_block, pipelineVars, cleanVars, promptVars>>

\* event.type == "content_block_delta"
BlockDelta ==
  /\ ~StreamEnded /\ Len(stream) < MaxEvents
  /\ \E event \in Deltas :
       /\ stream' = Append(stream, event)
       /\ IF event.block = "thinking" /\ in_thinking_block
            THEN /\ current_thinking' = current_thinking \o event.text
                 /\ UNCHANGED current_response
            ELSE IF event.block = "text" /\ in_text_block
              THEN /\ current_response' = current_response \o event.text
                   /\ UNCHANGED current_thinking
              ELSE UNCHANGED <<current_thinking, current_response>>
  /\ UNCHANGED <<in_thinking_block, in_text_block, pipelineVars, cleanVars, promptVars>>

\* event.type == "content_block_stop"
BlockStop ==
  /\ ~StreamEnded /\ Len(stream) < MaxEvents
  /\ \E event \in Stops :
       stream' = Append(stream, event)
  /\ IF in_thinking_block
       THEN /\ in_thinking_block' = FALSE
            /\ UNCHANGED in_text_block
       ELSE IF in_text_block
         THEN /\ in_text_block' = FALSE
              /\ UNCHANGED in_thinking_block
         ELSE UNCHANGED <<in_thinking_block, in_text_block>>
  /\ UNCHANGED <<current_thinking, current_response, pipelineVars, cleanVars, promptVars>>

\* event.type == "message_stop": pass; it is the last event of a response
MessageStop ==
  /\ ~StreamEnded
  /\ stream' = Append(stream, message_stop)
  /\ UNCHANGED <<in_thinking_block, in_text_block, current_thinking, current_response,
                 pipelineVars, cleanVars, promptVars>>

NextStream ==
  \/ BlockStart
  \/ BlockDelta
  \/ BlockStop
  \/ MessageStop

SpecStream == InitStream /\ [][NextStream]_vars

\* ===================================================================== claims
\* the positions of a sequence that satisfy a test
Positions(seq, Test(_)) == {k \in 1..Len(seq) : Test(seq[k])}

IsSummary(r) == r.page = summary
IsPage(r) == r.page # summary

\* the lowest-numbered page image of the folder an artifact was written for
FirstImage(w) == Min(pdf_folders[w.pathway_name].pngs)

\* no record of the artifact is a record of the folder's first page image
NoFirstPage(w) ==
  \A k \in Positions(w.responses, IsPage) : w.responses[k].image_file # FirstImage(w)

\* the artifact's summary records, if any, are one record at the end
SummaryLast(w) ==
  /\ Cardinality(Positions(w.responses, IsSummary)) <= 1
  /\ \A k \in Positions(w.responses, IsSummary) : k = Len(w.responses)

\* the summary request of the artifact's folder ended without an error
SummarySucceeded(w) ==
  \E k \in 1..Len(results) :
    results[k] = [doc |-> w.pathway_name, page |-> summary, ok |-> TRUE]

\* C1 as stated: every written Extraction Artifact has no record for the first
\* page image and exactly one summary record, which is its last entry, whatever
\* the LLM requests did.
C1_AlwaysOneSummary ==
  \A j \in 1..Len(extracted) :
    /\ NoFirstPage(extracted[j])
    /\ Cardinality(Positions(extracted[j].responses, IsSummary)) = 1
    /\ SummaryLast(extracted[j])

\* C1 amended: every written Extraction Artifact has no record for the first
\* page image and at most one summary record, which is then its last entry; the
\* summary record is present exactly when the summary request did not raise.
C1_SummaryIffSucceeded ==
  \A j \in 1..Len(extracted) :
    /\ NoFirstPage(extracted[j])
    /\ SummaryLast(extracted[j])
    /\ Positions(extracted[j].responses, IsSummary) # {} <=> SummarySucceeded(extracted[j])

\* C1 witness: an artifact was written with Page Records and no summary record,
\* and another with a summary record after its Page Records
C1_Witness ==
  /\ \E j \in 1..Len(extracted) :
       /\ Positions(extracted[j].responses, IsPage) # {}
       /\ Positions(extracted[j].responses, IsSummary) = {}
  /\ \E j \in 1..Len(extracted) :
       /\ Positions(extracted[j].responses, IsPage) # {}
       /\ Positions(extracted[j].responses, IsSummary) # {}

\* the delimiter line: 50 '=' characters surrounded by blank lines
Delimiter == NL2 \o Rep("=", 50) \o NL2

C3_Idempotent == cleanStep = 2 => clean_twice = clean_once

\* the outcomes of a kind, and the log lines and artifact writes of a document
OutcomesOf(kinds) == {k \in 1..Len(outcomes) : outcomes[k].result \in kinds}
LogLines(doc) == {k \in 1..Len(truncation_log) : truncation_log[k] = doc}
WritesOf(doc) == {k \in 1..Len(complete_written) : complete_written[k].original_file = doc}

\* C4: a token-limit failure appends exactly one line to needs_truncation.log
\* and writes no artifact; any other failure appends nothing and writes no
\* artifact; the log grows by one line per token-limit failure of the run.
C4_TruncationLog ==
  /\ \A k \in OutcomesOf({"token_limit"}) :
       /\ Cardinality(LogLines(outcomes[k].doc)) = 1
       /\ WritesOf(outcomes[k].doc) = {}
  /\ \A k \in OutcomesOf({"bad_request", "exception"}) :
       /\ LogLines(outcomes[k].doc) = {}
       /\ WritesOf(outcomes[k].doc) = {}
  /\ Len(truncation_log) = Cardinality(OutcomesOf({"token_limit"}))

\* C4 witness: a run in which one request hit the token limit and another
\* failed otherwise
C4_Witness ==
  /\ OutcomesOf({"token_limit"}) # {}
  /\ OutcomesOf({"bad_request", "exception"}) # {}
  /\ pc = "end"

\* C5 as stated: the needs_truncation count reported at the end of the
\* Synthesizer equals the number of documents recorded in the log.
C5_TallyMatchesLog ==
  (stage = "Synthesizer" /\ pc = "end" /\ exitStatus = "normal")
    => needs_truncation = Len(truncation_log)

\* C6 as stated: in every stage, a KeyboardInterrupt raised at any point ends
\* the stage with the notice, not with an uncaught exception.
C6_InterruptCaught == interrupted => exitStatus = "notice"

\* the stage found nothing to process
NoInput ==
  \/ ~dirExists
  \/ /\ pdf_files = <<>> /\ pdf_folders = <<>>
     /\ json_files = <<>> /\ summary_files = <<>>

NothingProcessed ==
  /\ requests = <<>>
  /\ extracted = <<>> /\ complete_written = <<>>
  /\ matching_json = <<>> /\ ~consolidated
  /\ \A k \in DOMAIN images : images[k] = <<>>

\* C7 as stated: a stage whose input directory is missing or holds no matching
\* file reports it and ends normally, having processed nothing.
C7_NoInputEndsNormally ==
  (stage \in Stages /\ pc = "end" /\ ~interrupted /\ NoInput)
    => (exitStatus = "normal" /\ reported /\ NothingProcessed)

\* the pages of the records, or of the entries, of a sequence
RECURSIVE PagesOf(_)
PagesOf(seq) == IF seq = <<>> THEN <<>> ELSE <<Head(seq).page>> \o PagesOf(Tail(seq))

Ascending(ps) == \A j, k \in 1..Len(ps) : j < k => ps[j] < ps[k]

\* the page images of a folder that were sent in a page request
RequestedImages(d) ==
  {requests[k].image_file :
     k \in {n \in 1..Len(requests) : requests[n].doc = d /\ requests[n].page # summary}}

\* C8: a failed page request adds no record and is not repeated, and the later
\* pages are still requested: no page is requested twice, and each written
\* artifact has every page image of its folder but the first requested and holds, in ascending
\* order, exactly the pages whose request succeeded.
C8_FailedPageOmitted ==
  /\ \A j, k \in 1..Len(requests) :
       (stage = "Analyzer" /\ j # k) => requests[j] # requests[k]
  /\ \A j \in 1..Len(extracted) :
       LET w == extracted[j]
           d == w.pathway_name
       IN /\ RequestedImages(d) = pdf_folders[d].pngs \ {FirstImage(w)}
          /\ PagesOf(SelectSeq(w.responses, IsPage))
               = PagesOf(SelectSeq(results,
                    LAMBDA r : r.doc = d /\ r.page # summary /\ r.ok))
          /\ Ascending(PagesOf(SelectSeq(w.responses, IsPage)))

\* C8 witness: an artifact was written whose first page request failed and
\* whose later page request succeeded
C8_Witness ==
  \E j \in 1..Len(extracted) :
    /\ PagesOf(SelectSeq(extracted[j].responses, IsPage)) = <<3>>
    /\ \E k \in 1..Len(results) :
         results[k] = [doc |-> extracted[j].pathway_name, page |-> 2, ok |-> FALSE]

\* the .png files of a folder
PngCount(folder) == Cardinality(folder.pngs) + (IF folder.foreign THEN 1 ELSE 0)

\* C9 as stated: a folder with fewer than 2 page images gets no LLM request and
\* no Extraction Artifact, and the stage goes on to the next folder instead of
\* ending on it with an error.
C9_ShortFolderSkipped ==
  \A d \in 1..Len(pdf_folders) :
    PngCount(pdf_folders[d]) < 2 =>
      /\ \A k \in 1..Len(requests) : requests[k].doc # d
      /\ \A k \in 1..Len(extracted) : extracted[k].pathway_name # d
      /\ ~(folderIdx = d /\ exitStatus = "uncaught")

\* two artifacts that differ at most in the content of their summary records
DifferOnlyInSummary(a, b) ==
  /\ a.pathway_name = b.pathway_name
  /\ Len(a.responses) = Len(b.responses)
  /\ \A k \in 1..Len(a.responses) :
       /\ a.responses[k].page = b.responses[k].page
       /\ a.responses[k].page # summary => a.responses[k] = b.responses[k]

\* C10: two Extraction Artifacts that differ only in the content of their
\* summary records get the same prompt.
C10_SummaryNotInPrompt ==
  (promptA # <<>> /\ promptB # <<>> /\ DifferOnlyInSummary(dataA, dataB))
    => promptA = promptB

\* C10 witness: both prompts are built for artifacts with page records whose
\* summary records differ in content
C10_Witness ==
  /\ promptA # <<>> /\ promptB # <<>>
  /\ DifferOnlyInSummary(dataA, dataB)
  /\ dataA # dataB
  /\ Positions(dataA.responses, IsPage) # {}

\* ------------------------------------------------------------------- C11
\* the Rasterizer has gone through its whole listing
RasterFinished == stage = "Rasterizer" /\ pc = "end" /\ exitStatus = "normal"

\* pg1.png .. pgN.png, in page order
PageImages(n) == [j \in 1..n |-> j]

\* C11, as stated: after the stage finishes, every PDF of the input folder has
\* as many page images as it has pages, named pg1.png .. pgN.png in page order
C11_ImagesEqualPages ==
  RasterFinished =>
    \A k \in 1..Len(pdf_files) : images[k] = PageImages(pdf_files[k].pages)

\* the PDF's conversion raises nothing
Converts(pdf) == pdf.renders /\ pdf.save_fails = 0

\* C11, amended: a Rasterizer run that is not interrupted ends normally whatever
\* the PDFs do; then every PDF whose conversion raised nothing has the images
\* pg1.png .. pgN.png, N its page count, saved in page order; a PDF that does not
\* render has none, and one whose page k fails to save has pg1.png .. pg(k-1).png
C11_ConvertedImagesEqualPages ==
  /\ (stage = "Rasterizer" /\ pc = "end" /\ dirExists /\ ~interrupted)
       => exitStatus = "normal"
  /\ RasterFinished =>
       \A k \in 1..Len(pdf_files) :
         LET pdf == pdf_files[k]
         IN /\ Converts(pdf) => images[k] = PageImages(pdf.pages)
            /\ ~pdf.renders => images[k] = <<>>
            /\ (pdf.renders /\ pdf.save_fails > 0)
                 => images[k] = PageImages(pdf.save_fails - 1)

\* a PDF that does not render is followed by one that is converted in full
C11_Witness ==
  /\ RasterFinished
  /\ \E k \in 1..Len(pdf_files) : \E m \in 1..Len(pdf_files) :
       /\ k < m
       /\ ~pdf_files[k].renders /\ pdf_files[k].pages > 0
       /\ Converts(pdf_files[m]) /\ pdf_files[m].pages = MaxPdfPages
       /\ images[m] = PageImages(MaxPdfPages)

\* ------------------------------------------------------------------- C12
\* C12: whatever start / delta / stop events of types thinking and text arrive,
\* in_thinking_block and in_text_block are never both true, and both are false
\* when the request starts
C12_NeverBothFlags ==
  /\ ~(in_thinking_block /\ in_text_block)
  /\ stream = <<>> => (~in_thinking_block /\ ~in_text_block)

\* ------------------------------------------------------------------- C13
RECURSIVE OpenBlock(_)
\* the block that is open after the events s: "none", "thinking" or "text";
\* "bad" when s is not properly bracketed
OpenBlock(s) ==
  IF s = <<>> THEN "none"
  ELSE LET event == s[Len(s)]
           before == OpenBlock(SubSeq(s, 1, Len(s) - 1))
       IN IF before = "bad" THEN "bad"
          ELSE IF event.type = "content_block_start"
            THEN IF before = "none" THEN event.block ELSE "bad"
          ELSE IF event.type = "content_block_delta"
            THEN IF before = event.block THEN before ELSE "bad"
          ELSE IF before = "none" THEN
                 (IF event.type = "message_stop" THEN "none" ELSE "bad")
          ELSE IF event.type = "content_block_stop" THEN "none" ELSE "bad"

ProperlyBracketed(s) == OpenBlock(s) # "bad"

\* the deltas of one type in s, concatenated in arrival order
DeltasOf(s, block) ==
  LET ds == SelectSeq(s, LAMBDA e : e.type = "content_block_delta" /\ e.block = block)
  IN Flatten([k \in 1..Len(ds) |-> ds[k].text])

\* C13: while the events received are properly bracketed, and so when such a
\* stream ends, `response` is the concatenation in arrival order of the text
\* deltas and `thinking` that of the thinking deltas: each accumulator grows
\* only by its own deltas, appended
C13_AccumulatorsAreDeltas ==
  ProperlyBracketed(stream) =>
    /\ current_response = DeltasOf(stream, "text")
    /\ current_thinking = DeltasOf(stream, "thinking")

\* a reasoning block and an answer block, each with a delta, then the end
C13_Witness ==
  /\ StreamEnded /\ ProperlyBracketed(stream)
  /\ current_thinking # <<>> /\ current_response # <<>>
  /\ current_thinking # current_response

\* ------------------------------------------------------------------- C14
\* requests are issued one at a time: each has finished before the next is sent
OneAtATime ==
  /\ Len(requests) - Len(results) \in {0, 1}
  /\ \A k \in 1..Len(results) :
       results[k].doc = requests[k].doc /\ results[k].page = requests[k].page

\* per document: pages in ascending order, the summary request after them all
PagesThenSummary ==
  \A k \in 1..Len(requests) : \A j \in 1..(k - 1) :
    /\ requests[j].doc <= requests[k].doc
    /\ requests[j].doc = requests[k].doc =>
         /\ requests[j].page # summary
         /\ requests[k].page = summary \/ requests[j].page < requests[k].page

\* the summary request of a document follows the request of its last page
SummaryAfterLastPage ==
  \A k \in 1..Len(requests) :
    requests[k].page = summary =>
      LET d == requests[k].doc
      IN {requests[j].image_file : j \in {n \in 1..(k - 1) : requests[n].doc = d}}
           = pdf_folders[d].pngs \ {Min(pdf_folders[d].pngs)}

\* an artifact is written once, after the document's summary request finished
WrittenOnceAfterSummary ==
  \A k \in 1..Len(extracted) :
    /\ \E n \in 1..Len(results) :
         results[n].doc = extracted[k].pathway_name /\ results[n].page = summary
    /\ \A j \in 1..(k - 1) : extracted[j].pathway_name # extracted[k].pathway_name

\* C14: for each document the page requests go out one at a time in ascending
\* page order, the summary request only after the last page request has finished,
\* and the Extraction Artifact is written exactly once, after the summary request
\* has finished; an interrupted run has written nothing for the document in
\* flight and has left the artifacts of earlier documents as they were written
C14_AnalyzerOrdering ==
  stage = "Analyzer" =>
    /\ OneAtATime
    /\ PagesThenSummary
    /\ SummaryAfterLastPage
    /\ WrittenOnceAfterSummary
    /\ interrupted => \A k \in 1..Len(extracted) : extracted[k].pathway_name # folderIdx
    /\ (pc = "end" /\ exitStatus = "normal") =>
         \A d \in 1..Len(pdf_folders) :
           Cardinality(pdf_folders[d].pngs) >= 2 =>
             \E k \in 1..Len(extracted) : extracted[k].pathway_name = d

\* the run is interrupted during the second document's requests, after the
\* first document's two pages, summary and artifact
C14_Witness ==
  /\ stage = "Analyzer" /\ interrupted
  /\ Len(extracted) = 1 /\ extracted[1].pathway_name = 1
  /\ Len(requests) >= 4 /\ requests[3].page = summary
  /\ requests[Len(requests)].doc = 2

\* ------------------------------------------------------------------- C15
\* the Condenser has gone through its listing and every document succeeded
AllCondensed ==
  /\ stage = "Condenser" /\ pc \in {"tally", "end"} /\ ~interrupted
  /\ summary_files # <<>>
  /\ cond_successful = Len(summary_files)

\* C15: in a run where every document succeeds, no two Complete-Summary
\* Artifacts write the same <clean_name>_matching.json, so there are as many
\* matching-summary artifacts as artifacts processed
C15_NoNameCollision ==
  AllCondensed =>
    /\ \A j, k \in 1..Len(summary_files) :
         j # k => clean_pathway_name(summary_files[j].name)
                    # clean_pathway_name(summary_files[k].name)
    /\ Cardinality(DOMAIN matching_json) = Len(summary_files)

\* ------------------------------------------------------------------- C16
\* the stage has ended without being interrupted, having found its directory
StageOver == pc = "end" /\ ~interrupted /\ dirExists

\* C16: a failure while handling one document (a failed request, a malformed
\* input artifact, a .png file not named pg<N>.png) does not keep the Page
\* Analyzer, Synthesizer or Condenser from the remaining documents: when the
\* stage ends every discovered document has been attempted and counted
C16_EveryDocumentAttempted ==
  /\ (stage = "Analyzer" /\ StageOver) =>
       /\ exitStatus = "normal"
       /\ folderIdx = Len(pdf_folders)
  /\ (stage = "Synthesizer" /\ StageOver) =>
       /\ exitStatus = "normal"
       /\ fileIdx = Len(json_files)
       /\ successful + needs_truncation = Len(json_files)
  /\ (stage = "Condenser" /\ StageOver) =>
       /\ exitStatus = "normal"
       /\ sumIdx = Len(summary_files)
       /\ cond_successful + failed = Len(summary_files)

\* ------------------------------------------------------------------- C17
\* C17: every Page Record written has page >= 2 and page equal to the index N
\* of its image_file pg<N>.png, and the image left out of the analysis is
\* pg1.png; also when page requests fail and when the folder's indices are not
\* 1, 2, 3, ...
C17_PageIsImageIndex ==
  \A j \in 1..Len(extracted) :
    LET w == extracted[j]
    IN /\ \A k \in Positions(w.responses, IsPage) :
            /\ w.responses[k].page >= 2
            /\ w.responses[k].page = w.responses[k].image_file
       /\ FirstImage(w) = 1

====
